---- MODULE Spec2Model ----
(***************************************************************************)
(* A model of garminconnect/__init__.py: the ApiClient error translation,  *)
(* the login state machine of Garmin (login, login_session, authenticate)  *)
(* and the two facade methods with control flow of their own               *)
(* (get_activities_by_date, get_device_alarms).                            *)
(*                                                                         *)
(* The remote service and the HTTP transport are the environment: every    *)
(* request is answered by a transport outcome drawn with \E, either an     *)
(* exception raised by the transport before a response exists, or a        *)
(* response with a status, a final URL, a Set-Cookie effect and a body.    *)
(* A body is kept as what the code's regular expressions and JSON decoder  *)
(* see in it.  Each action is one request/response cycle together with all *)
(* the code of the method that runs up to the next request (or the end of  *)
(* the call): the program is synchronous and single threaded.              *)
(***************************************************************************)
EXTENDS Integers, Sequences, FiniteSets, TLC

VARIABLES
    is_cn,          \* Garmin.is_cn, fixed at construction
    session_data,   \* Garmin.session_data
    display_name,   \* Garmin.display_name
    full_name,      \* Garmin.full_name
    unit_system,    \* Garmin.unit_system
    cookies,        \* the one cookie jar of the shared cloudscraper session
    pc,             \* where the running call stands; "idle" between calls
    call,           \* the facade method running, or the last one that ran
    result,         \* how the last call ended
    locals,         \* the local variables of the running method
    trace,          \* the requests of the running (or last) call, in order
    via,            \* how authenticate() was entered in this call
    saved,          \* session_data as it was when the call began (history)
    ncalls          \* number of calls made so far (bounded by MaxCalls)

vars == <<is_cn, session_data, display_name, full_name, unit_system, cookies,
          pc, call, result, locals, trace, via, saved, ncalls>>

-----------------------------------------------------------------------------
(* Bounds of the model *)

\* calls made in one behaviour
MaxCalls == 2
\* non-empty pages the server serves to one get_activities_by_date call
MaxPages == 3
\* devices in the device list
MaxDevices == 2
\* alarms in one device's settings
MaxAlarms == 2

(* Program constants *)

\* limit = 20 in get_activities_by_date
limit == 20

-----------------------------------------------------------------------------
(* Python values *)

\* None, for the string-valued attributes and regex results
None == "None"

\* session_data = None
NoSession == [is_none |-> TRUE]

\* d.update(e) on dictionaries
Update(d, e) ==
    [k \in (DOMAIN d) \cup (DOMAIN e) |-> IF k \in DOMAIN e THEN e[k] ELSE d[k]]

EmptyDict == [k \in {} |-> None]

\* how a call, or a step of it, ends
Return(v) == [kind |-> "return", value |-> v]

Raise(e, m) == [kind |-> "raise", exc |-> e, msg |-> m]

NoResult == [kind |-> "none"]

-----------------------------------------------------------------------------
(* The environment: hosts, statuses, bodies *)

DisplayNames == {"alice", "bob"}

UnitSystems == {"metric"}

FullNames == {"Alice A"}

\* 200; a success other than 200; the three mapped statuses; another failure
Statuses == {200, 204, 401, 403, 429, 500}

\* what re.search(key + " = (\{.*\});") and json.loads see of one blob
NoMatch == [match |-> FALSE]

BadJson == [match |-> TRUE, valid |-> FALSE]

GoodJson(obj) == [match |-> TRUE, valid |-> TRUE, obj |-> obj]

PrefsTexts ==
    {NoMatch, BadJson}
    \cup {GoodJson([displayName |-> d, measurementSystem |-> u]) :
            d \in DisplayNames, u \in UnitSystems}

SocialTexts == {NoMatch, BadJson} \cup {GoodJson([fullName |-> f]) : f \in FullNames}

CsrfTokens == {"csrf1"}

Tickets == {"ST-1"}

EmptyHtml ==
    [csrf |-> None, ticket |-> None, prefs |-> NoMatch, social |-> NoMatch]

\* an HTML page holding the two embedded blobs (resume and ticket exchange)
ProfilePages ==
    {[EmptyHtml EXCEPT !.prefs = p, !.social = s] : p \in PrefsTexts, s \in SocialTexts}

\* the sign-in page
SigninPages == {[EmptyHtml EXCEPT !.csrf = c] : c \in CsrfTokens \cup {None}}

\* the answer to the credential POST
TicketPages == {[EmptyHtml EXCEPT !.ticket = t] : t \in Tickets \cup {None}}

-----------------------------------------------------------------------------
(* Garmin.__init__: the hosts and the two endpoint clients *)

garmin_connect_base_url(cn) ==
    IF cn THEN "https://connect.garmin.cn" ELSE "https://connect.garmin.com"

garmin_connect_sso_url(cn) == IF cn THEN "sso.garmin.cn/sso" ELSE "sso.garmin.com/sso"

garmin_connect_modern_url(cn) ==
    IF cn THEN "connect.garmin.cn/modern" ELSE "connect.garmin.com/modern"

garmin_connect_css_url(cn) ==
    IF cn THEN "https://static.garmincdn.cn/cn.garmin.connect/ui/css/gauth-custom-v1.2-min.css"
    ELSE "https://static.garmincdn.com/com.garmin.connect/ui/css/gauth-custom-v1.2-min.css"

garmin_connect_login_url(cn) == <<garmin_connect_base_url(cn), "/en-US/signin">>

garmin_connect_sso_login == "signin"

garmin_connect_devices_url == "proxy/device-service/deviceregistration/devices"

garmin_connect_device_url == "proxy/device-service/deviceservice"

garmin_connect_activities == "proxy/activitylist-service/activities/search/activities"

garmin_connect_daily_summary_url == "proxy/usersummary-service/usersummary/daily"

garmin_connect_weight_url == "proxy/weight-service/weight/dateRange"

garmin_headers == [NK |-> "NT"]

default_headers ==
    [User_Agent |-> "Mozilla/5.0 (Macintosh; Intel Mac OS X 10.14; rv:66.0) Gecko/20100101 Firefox/66.0"]

\* the two ApiClient instances: their baseurl and headers (one shared session)
sso_rest_client(cn) ==
    [name |-> "sso", baseurl |-> garmin_connect_sso_url(cn),
     headers |-> Update(default_headers, garmin_headers)]

modern_rest_client(cn) ==
    [name |-> "modern", baseurl |-> garmin_connect_modern_url(cn),
     headers |-> Update(default_headers, garmin_headers)]

-----------------------------------------------------------------------------
(* ApiClient *)

\* ApiClient.url: a URL is kept as the sequence of the pieces it is formatted
\* from; addurl is <<>> for None and <<"">> for the empty string
url(client, addurl) ==
    <<"https://", client.baseurl>> \o (IF addurl = <<>> THEN <<>> ELSE <<"/">> \o addurl)

\* the total_headers of a call
total_headers(client, aditional_headers) == Update(client.headers, aditional_headers)

\* Response.raise_for_status() raises HTTPError for a 4xx or 5xx status
raise_for_status(status) == status >= 400 /\ status < 600

\* get with the 401 and 429 branches exchanged
get_statuses_exchanged(client, addurl, outcome) ==
    IF outcome.kind = "response" /\ ~raise_for_status(outcome.status)
    THEN Return(outcome)
    ELSE IF outcome.kind = "error"
    THEN Raise("UnboundLocalError", <<"response">>)
    ELSE IF outcome.status = 401
    THEN Raise("GarminConnectTooManyRequestsError", <<"Too many requests">>)
    ELSE IF outcome.status = 429
    THEN Raise("GarminConnectAuthenticationError", <<"Authentication error">>)
    ELSE IF outcome.status = 403
    THEN Raise("GarminConnectConnectionError", <<"Forbidden url: ">> \o url(client, addurl))
    ELSE Raise("GarminConnectConnectionError", <<"HTTPError">>)

\* ApiClient.get, given what the transport did with the request.  The except
\* clause is entered with the exception of session.get or of raise_for_status;
\* when the transport itself raised, `response` was never bound, and the
\* handler's first statement, which reads response.content, raises
\* UnboundLocalError.
get(client, addurl, outcome) ==
    IF outcome.kind = "response" /\ ~raise_for_status(outcome.status)
    THEN Return(outcome)
    ELSE IF outcome.kind = "error"
    THEN Raise("UnboundLocalError", <<"response">>)
    ELSE IF outcome.status = 429
    THEN Raise("GarminConnectTooManyRequestsError", <<"Too many requests">>)
    ELSE IF outcome.status = 401
    THEN Raise("GarminConnectAuthenticationError", <<"Authentication error">>)
    ELSE IF outcome.status = 403
    THEN Raise("GarminConnectConnectionError", <<"Forbidden url: ">> \o url(client, addurl))
    ELSE Raise("GarminConnectConnectionError", <<"HTTPError">>)

\* ApiClient.post, given what the transport did with the request: as get
post(client, addurl, outcome) ==
    IF outcome.kind = "response" /\ ~raise_for_status(outcome.status)
    THEN Return(outcome)
    ELSE IF outcome.kind = "error"
    THEN Raise("UnboundLocalError", <<"response">>)
    ELSE IF outcome.status = 429
    THEN Raise("GarminConnectTooManyRequestsError", <<"Too many requests">>)
    ELSE IF outcome.status = 401
    THEN Raise("GarminConnectAuthenticationError", <<"Authentication error">>)
    ELSE IF outcome.status = 403
    THEN Raise("GarminConnectConnectionError", <<"Forbidden url: ">> \o url(client, addurl))
    ELSE Raise("GarminConnectConnectionError", <<"HTTPError">>)

-----------------------------------------------------------------------------
(* The transport: the shared session and its cookie jar *)

\* the cookie a host sets
HostCookie(client) == IF client.name = "sso" THEN "CASTGC" ELSE "SESSIONID"

\* the jar after the response to a request on `client` was received
ReceiveCookies(jar, client, outcome) ==
    IF outcome.kind = "response" /\ outcome.set_cookie
    THEN Update(jar, [k \in {<<client.baseurl, HostCookie(client)>>} |-> "new"])
    ELSE jar

\* ApiClient.set_cookies(cookiejar_from_dict(d)): cookies without a domain
set_cookies(jar, d) == Update(jar, [k \in {<<"", n>> : n \in DOMAIN d} |-> d[k[2]]])

\* requests.utils.dict_from_cookiejar: name -> value, the domain dropped
dict_from_cookiejar(jar) ==
    [n \in {k[2] : k \in DOMAIN jar} |->
        jar[CHOOSE k \in DOMAIN jar : k[2] = n]]

EmptyJar == [k \in {} |-> None]

\* clear_cookies left out: the jar stays as it is
clear_cookies_skipped(jar) == jar

\* ApiClient.clear_cookies: session.cookies.clear()
clear_cookies(jar) == EmptyJar

TransportError == [kind |-> "error"]

Response(status, redirected, set_cookie, body) ==
    [kind |-> "response", status |-> status, redirected |-> redirected,
     set_cookie |-> set_cookie, body |-> body]

\* the URL that was requested taken for the URL of the response
ResponseUrl_requested(u, outcome) == u

\* Response.url: the URL the transport ended at
ResponseUrl(u, outcome) == IF outcome.redirected THEN u \o <<"#redirected">> ELSE u

\* what the transport can do with one request whose answer, when the call
\* returns it, has a body of `bodies`.  The body of an answer that get/post
\* turns into an exception is never read, so it is left empty.
\* A 204 (No Content) answer has no body either.  `redirs` says whether the
\* transport may have followed a redirect to reach a 200 answer, `sets`
\* whether the answer may carry a Set-Cookie header.
Outcomes(bodies, empty, redirs, sets) ==
    {TransportError}
    \cup {Response(s, FALSE, c, empty) : s \in Statuses \ {200}, c \in sets}
    \cup {Response(200, r, c, b) : r \in redirs, c \in sets, b \in bodies}

\* the hosts of the login flow may set a cookie with any answer; the data
\* endpoints, whose callers never read the jar, are taken not to
LoginSets == BOOLEAN

DataSets == {FALSE}

\* Response.json(): the decoded body; an answer without a body (204) has
\* nothing to decode and json() raises
json(response) ==
    IF response.status = 204
    THEN Raise("JSONDecodeError", <<"Expecting value">>)
    ELSE Return(response.body)

\* one entry of the request log; `jar` is the session's cookie jar as the
\* request is sent
Request(method, client, addurl, headers, params, data, jar, outcome, api) ==
    [method |-> method, client |-> client.name, url |-> url(client, addurl),
     headers |-> headers, params |-> params, data |-> data, jar |-> jar,
     outcome |-> outcome, api |-> api]

-----------------------------------------------------------------------------
(* Garmin: construction *)

username == "user@example.com"

password == "secret"

\* session state a caller may hand to the constructor
SavedSessions ==
    {[display_name |-> d,
      session_cookies |-> [n \in {"SESSIONID"} |-> "old"],
      login_cookies |-> [n \in {"CASTGC"} |-> "old"]] : d \in DisplayNames}

NoLocals ==
    [csrf |-> None, referer |-> <<>>, params |-> EmptyDict,
     activities |-> <<>>, start |-> 0,
     devices |-> <<>>, alarms |-> <<>>]

\* Garmin.__init__
Init ==
    /\ is_cn \in BOOLEAN
    /\ session_data \in {NoSession} \cup SavedSessions
    /\ display_name = None
    /\ full_name = None
    /\ unit_system = None
    /\ cookies = EmptyJar
    /\ pc = "idle"
    /\ call = "none"
    /\ result = NoResult
    /\ locals = NoLocals
    /\ trace = <<>>
    /\ via = "none"
    /\ saved = session_data
    /\ ncalls = 0

\* a new Garmin object built from the session state the previous one holds
\* (the caller persisted session_data and restored it): a fresh transport
Construct ==
    /\ pc = "idle"
    /\ call # "none"
    /\ ncalls < MaxCalls
    /\ display_name' = None
    /\ full_name' = None
    /\ unit_system' = None
    /\ cookies' = EmptyJar
    /\ call' = "none"
    /\ result' = NoResult
    /\ locals' = NoLocals
    /\ trace' = <<>>
    /\ via' = "none"
    /\ saved' = session_data
    /\ UNCHANGED <<is_cn, session_data, pc, ncalls>>

-----------------------------------------------------------------------------
(* Garmin: login *)

\* Garmin.__get_json: a value, None, or the exception json.loads raises
ReturnNone == [kind |-> "return_none"]

get_json(page_html, key) ==
    LET found == IF key = "VIEWER_USERPREFERENCES" THEN page_html.prefs
                 ELSE page_html.social
    IN  IF found.match
        THEN IF found.valid THEN Return(found.obj) ELSE Raise("JSONDecodeError", <<key>>)
        ELSE ReturnNone

\* subscripting what __get_json returned: None["k"] raises TypeError
NoneSubscript == Raise("TypeError", <<"'NoneType' object is not subscriptable">>)

\* the parameter bag of the resume GET
resume_params ==
    [service |-> "https://connect.garmin.com/modern/",
     webhost |-> "https://connect.garmin.com",
     gateway |-> "true",
     generateExtraServiceTicket |-> "true",
     generateTwoExtraServiceTickets |-> "true"]

\* the parameter bag of the sign-in GET and POST: the entries built from the
\* hosts, and `widget` for the block of fixed UI toggles
signin_params(cn) ==
    [service |-> url(modern_rest_client(cn), <<>>),
     webhost |-> <<garmin_connect_base_url(cn)>>,
     source |-> garmin_connect_login_url(cn),
     redirectAfterAccountLoginUrl |-> url(modern_rest_client(cn), <<>>),
     redirectAfterAccountCreationUrl |-> url(modern_rest_client(cn), <<>>),
     gauthHost |-> url(sso_rest_client(cn), <<>>),
     cssUrl |-> <<garmin_connect_css_url(cn)>>,
     widget |-> <<"locale=en_US", "id=gauth-widget", "clientId=GarminConnect">>]

\* Garmin.login: the dispatch on session_data
login ==
    /\ pc = "idle"
    /\ ncalls < MaxCalls
    /\ ncalls' = ncalls + 1
    /\ call' = "login"
    /\ result' = NoResult
    /\ locals' = NoLocals
    /\ trace' = <<>>
    /\ saved' = session_data
    /\ IF session_data = NoSession
       THEN pc' = "authenticate" /\ via' = "direct"
       ELSE pc' = "login_session" /\ via' = "none"
    /\ UNCHANGED <<is_cn, session_data, display_name, full_name, unit_system, cookies>>

\* the end of a call
Finish(r) ==
    /\ pc' = "idle"
    /\ result' = r

\* line 254: the resume answer counts as an expired session
session_expired(response) == response.status # 200

\* line 273 with the comparison inverted
session_valid_inverted(name, session_display_name) == name # session_display_name

\* line 273: the saved session belongs to the identity the server reports
session_valid(name, session_display_name) == name = session_display_name

\* the fallback calls login() again: the resume is retried
fallback_call_login == "login_session"

\* lines 256, 261, 276: what login_session calls when the session is not valid
fallback_call == "authenticate"

\* Garmin.login_session, up to its return, its raise or its call of authenticate
login_session ==
    /\ pc = "login_session"
    /\ \E outcome \in Outcomes(ProfilePages, EmptyHtml, {FALSE}, LoginSets) :
        LET client == sso_rest_client(is_cn)
            session_display_name == session_data.display_name
            jar == set_cookies(set_cookies(cookies, session_data.session_cookies),
                               session_data.login_cookies)
            headers == total_headers(client, EmptyDict)
            api == get(client, <<"login">>, outcome)
            response == api.value
            user_prefs == get_json(response.body, "VIEWER_USERPREFERENCES")
            social_profile == get_json(response.body, "VIEWER_SOCIAL_PROFILE")
            fallback == /\ pc' = fallback_call
                        /\ via' = "resume_fallback"
                        /\ UNCHANGED result
        IN  /\ trace' = Append(trace, Request("GET", client, <<"login">>, headers,
                                              resume_params, EmptyDict, jar,
                                              outcome, api))
            /\ cookies' = ReceiveCookies(jar, client, outcome)
            /\ IF api.kind = "raise"
               THEN /\ Finish(api)
                    /\ UNCHANGED <<display_name, unit_system, full_name, via>>
               ELSE IF session_expired(response)
               THEN /\ fallback
                    /\ UNCHANGED <<display_name, unit_system, full_name>>
               ELSE IF user_prefs.kind = "raise"
               THEN /\ Finish(user_prefs)
                    /\ UNCHANGED <<display_name, unit_system, full_name, via>>
               ELSE IF user_prefs = ReturnNone
               THEN /\ fallback
                    /\ UNCHANGED <<display_name, unit_system, full_name>>
               ELSE /\ display_name' = user_prefs.value.displayName
                    /\ unit_system' = user_prefs.value.measurementSystem
                    /\ IF social_profile.kind = "raise"
                       THEN Finish(social_profile) /\ UNCHANGED <<full_name, via>>
                       ELSE IF social_profile = ReturnNone
                       THEN Finish(NoneSubscript) /\ UNCHANGED <<full_name, via>>
                       ELSE /\ full_name' = social_profile.value.fullName
                            /\ IF session_valid(user_prefs.value.displayName,
                                                session_display_name)
                               THEN Finish(Return(TRUE)) /\ UNCHANGED via
                               ELSE fallback
    /\ UNCHANGED <<is_cn, session_data, call, locals, saved, ncalls>>

\* re.search(r'name="_csrf" value="(\w*)', response.text): the token, or None
search_csrf(page_html) == page_html.csrf

\* re.search(r"\?ticket=([\w-]*)", response.text): the ticket, or None
search_ticket(page_html) == page_html.ticket

\* `if not found` with the test dropped: the flow goes on without a match
not_found_ignored(found) == FALSE

\* `if not found` after a re.search
not_found(found) == found = None

\* Garmin.authenticate, lines 281-333: the jars cleared, the sign-in GET, the
\* CSRF token
authenticate ==
    /\ pc = "authenticate"
    /\ \E outcome \in Outcomes(SigninPages, EmptyHtml, BOOLEAN, LoginSets) :
        LET client == sso_rest_client(is_cn)
            jar == clear_cookies(clear_cookies(cookies))
            get_headers == [Referer |-> garmin_connect_login_url(is_cn)]
            params == signin_params(is_cn)
            api == get(client, <<garmin_connect_sso_login>>, outcome)
            response == api.value
            found == search_csrf(response.body)
        IN  /\ trace' = Append(trace,
                   Request("GET", client, <<garmin_connect_sso_login>>,
                           total_headers(client, get_headers), params, EmptyDict,
                           jar, outcome, api))
            /\ cookies' = ReceiveCookies(jar, client, outcome)
            /\ IF api.kind = "raise"
               THEN Finish(api) /\ UNCHANGED locals
               ELSE IF not_found(found)
               THEN Finish(Return(FALSE)) /\ UNCHANGED locals
               ELSE /\ pc' = "authenticate_post"
                    /\ locals' = [locals EXCEPT
                           !.csrf = found,
                           !.referer = ResponseUrl(url(client, <<garmin_connect_sso_login>>),
                                                   response),
                           !.params = params]
                    /\ UNCHANGED result
    /\ UNCHANGED <<is_cn, session_data, display_name, full_name, unit_system,
                   call, via, saved, ncalls>>

\* Garmin.authenticate, lines 336-355: the credential POST, the ticket
authenticate_post ==
    /\ pc = "authenticate_post"
    /\ \E outcome \in Outcomes(TicketPages, EmptyHtml, {FALSE}, LoginSets) :
        LET client == sso_rest_client(is_cn)
            data == [username |-> username, password |-> password,
                     embed |-> "false", _csrf |-> locals.csrf]
            post_headers == [Referer |-> locals.referer,
                             Content_Type |-> <<"application/x-www-form-urlencoded">>]
            api == post(client, <<garmin_connect_sso_login>>, outcome)
            response == api.value
            found == search_ticket(response.body)
        IN  /\ trace' = Append(trace,
                   Request("POST", client, <<garmin_connect_sso_login>>,
                           total_headers(client, post_headers), locals.params, data,
                           cookies, outcome, api))
            /\ cookies' = ReceiveCookies(cookies, client, outcome)
            /\ IF api.kind = "raise"
               THEN Finish(api) /\ UNCHANGED locals
               ELSE IF not_found(found)
               THEN Finish(Return(FALSE)) /\ UNCHANGED locals
               ELSE /\ pc' = "authenticate_ticket"
                    /\ locals' = [locals EXCEPT !.params = [ticket |-> found]]
                    /\ UNCHANGED result
    /\ UNCHANGED <<is_cn, session_data, display_name, full_name, unit_system,
                   call, via, saved, ncalls>>

\* the saved record keeps the display name of the record it replaces
new_session_data_old_name(old, name, jar) ==
    [display_name |-> IF old = NoSession THEN name ELSE old.display_name,
     session_cookies |-> dict_from_cookiejar(jar),
     login_cookies |-> dict_from_cookiejar(jar)]

\* the saved record snapshots the jar of a new, empty session
new_session_data_no_cookies(old, name, jar) ==
    [display_name |-> name,
     session_cookies |-> dict_from_cookiejar(EmptyJar),
     login_cookies |-> dict_from_cookiejar(EmptyJar)]

\* lines 370-378: the session state saved by authenticate.  Both clients hold
\* the one shared session, so both cookie fields snapshot the same jar.
new_session_data(old, name, jar) ==
    [display_name |-> name,
     session_cookies |-> dict_from_cookiejar(jar),
     login_cookies |-> dict_from_cookiejar(jar)]

\* Garmin.authenticate, lines 357-382: the ticket exchange, the two blobs, the
\* session state saved
authenticate_ticket ==
    /\ pc = "authenticate_ticket"
    /\ \E outcome \in Outcomes(ProfilePages, EmptyHtml, {FALSE}, LoginSets) :
        LET client == modern_rest_client(is_cn)
            api == get(client, <<"">>, outcome)
            response == api.value
            jar == ReceiveCookies(cookies, client, outcome)
            user_prefs == get_json(response.body, "VIEWER_USERPREFERENCES")
            social_profile == get_json(response.body, "VIEWER_SOCIAL_PROFILE")
        IN  /\ trace' = Append(trace,
                   Request("GET", client, <<"">>, total_headers(client, EmptyDict),
                           locals.params, EmptyDict, cookies, outcome, api))
            /\ cookies' = jar
            /\ IF api.kind = "raise"
               THEN /\ Finish(api)
                    /\ UNCHANGED <<display_name, unit_system, full_name, session_data>>
               ELSE IF user_prefs.kind = "raise"
               THEN /\ Finish(user_prefs)
                    /\ UNCHANGED <<display_name, unit_system, full_name, session_data>>
               ELSE IF user_prefs = ReturnNone
               THEN /\ Finish(NoneSubscript)
                    /\ UNCHANGED <<display_name, unit_system, full_name, session_data>>
               ELSE /\ display_name' = user_prefs.value.displayName
                    /\ unit_system' = user_prefs.value.measurementSystem
                    /\ IF social_profile.kind = "raise"
                       THEN Finish(social_profile) /\ UNCHANGED <<full_name, session_data>>
                       ELSE IF social_profile = ReturnNone
                       THEN Finish(NoneSubscript) /\ UNCHANGED <<full_name, session_data>>
                       ELSE /\ full_name' = social_profile.value.fullName
                            /\ session_data' =
                                 new_session_data(session_data,
                                                  user_prefs.value.displayName, jar)
                            /\ Finish(Return(TRUE))
    /\ UNCHANGED <<is_cn, call, locals, via, saved, ncalls>>

-----------------------------------------------------------------------------
(* Garmin: the data methods with control flow of their own *)

Digits == <<"0", "1", "2", "3", "4", "5", "6", "7", "8", "9">>

\* str(n) for an integer n >= 0: its decimal digits
RECURSIVE str(_)
str(n) == IF n < 10 THEN <<Digits[n + 1]>> ELSE str(n \div 10) \o <<Digits[(n % 10) + 1]>>

\* the activities of the page served to the k-th request: n items, in order
ActivityPage(k, n) == [i \in 1..n |-> [activityId |-> <<k, i>>]]

\* page lengths the server serves: empty, short, full
PageSizes == {0, 1, limit}

ActivityTypes == {None, "running"}

startdate == "2021-01-01"

enddate == "2021-01-31"

\* truth value of a list: `if act := ...`
truthy(list) == list # <<>>

\* the offset advanced by the length of the page instead of the page size
next_start_by_length(start, lim, act) == start + Len(act)

\* the offset of the request after a non-empty page
next_start(start, lim, act) == start + lim

\* activities.extend(act)
extend(list, act) == list \o act

\* Garmin.get_activities_by_date, lines 626-641: the locals before the loop
get_activities_by_date ==
    /\ pc = "idle"
    /\ ncalls < MaxCalls
    /\ ncalls' = ncalls + 1
    /\ call' = "get_activities_by_date"
    /\ result' = NoResult
    /\ trace' = <<>>
    /\ pc' = "activities_loop"
    /\ \E activitytype \in ActivityTypes :
        LET params == [startDate |-> <<startdate>>, endDate |-> <<enddate>>,
                       start |-> str(0), limit |-> str(limit)]
        IN  locals' = [NoLocals EXCEPT
                !.activities = <<>>,
                !.start = 0,
                !.params = IF activitytype # None
                           THEN Update(params, [activityType |-> <<activitytype>>])
                           ELSE params]
    /\ saved' = session_data
    /\ via' = "none"
    /\ UNCHANGED <<is_cn, session_data, display_name, full_name, unit_system, cookies>>

\* one turn of the `while True` loop of get_activities_by_date, lines 642-651
activities_loop ==
    /\ pc = "activities_loop"
    /\ \E n \in PageSizes :
       \E outcome \in Outcomes({ActivityPage(Len(trace) + 1, n)}, <<>>, {FALSE}, DataSets) :
        LET client == modern_rest_client(is_cn)
            params == Update(locals.params, [start |-> str(locals.start)])
            api == get(client, <<garmin_connect_activities>>, outcome)
            decoded == json(api.value)
            act == decoded.value
        IN  \* the server serves at most MaxPages non-empty pages to one call
            /\ (outcome.kind = "response" /\ outcome.body # <<>>)
                   => Len(trace) < MaxPages
            /\ trace' = Append(trace,
                   Request("GET", client, <<garmin_connect_activities>>,
                           total_headers(client, EmptyDict), params, EmptyDict,
                           cookies, outcome, api))
            /\ cookies' = ReceiveCookies(cookies, client, outcome)
            /\ IF api.kind = "raise"
               THEN Finish(api) /\ locals' = [locals EXCEPT !.params = params]
               ELSE IF decoded.kind = "raise"
               THEN Finish(decoded) /\ locals' = [locals EXCEPT !.params = params]
               ELSE IF truthy(act)
               THEN /\ locals' = [locals EXCEPT
                           !.params = params,
                           !.activities = extend(locals.activities, act),
                           !.start = next_start(locals.start, limit, act)]
                    /\ UNCHANGED <<pc, result>>
               ELSE /\ Finish(Return(locals.activities))
                    /\ locals' = [locals EXCEPT !.params = params]
    /\ UNCHANGED <<is_cn, session_data, display_name, full_name, unit_system,
                   call, via, saved, ncalls>>

DeviceIds == {"d1", "d2"}

\* the device lists the server serves: up to MaxDevices devices
DeviceLists ==
    UNION {[1..n -> {[deviceId |-> d] : d \in DeviceIds}] : n \in 0..MaxDevices}

\* the settings served to the k-th request, for device d: n alarms, in order
DeviceSettings(k, d, n) ==
    [alarms |-> [j \in 1..n |-> [alarmId |-> <<k, d, j>>]]]

\* Garmin.get_device_settings: the path of one device's settings
device_settings_url(device_id) ==
    <<garmin_connect_device_url, "/device-info/settings/", device_id>>

\* the devices still to visit: `for device in devices` keeps the rest of the list
rest(devices) == Tail(devices)

\* the device's alarms put in front of the list instead of behind it
add_alarms_in_front(alarms, device_settings) == device_settings.alarms \o alarms

\* alarms += device_settings["alarms"]
add_alarms(alarms, device_settings) == alarms \o device_settings.alarms

\* Garmin.get_device_alarms, lines 584-588: get_devices and the start of the loop
get_device_alarms ==
    /\ pc = "idle"
    /\ ncalls < MaxCalls
    /\ ncalls' = ncalls + 1
    /\ call' = "get_device_alarms"
    /\ \E outcome \in Outcomes(DeviceLists, <<>>, {FALSE}, DataSets) :
        LET client == modern_rest_client(is_cn)
            api == get(client, <<garmin_connect_devices_url>>, outcome)
            decoded == json(api.value)
            devices == decoded.value
        IN  /\ trace' = <<Request("GET", client, <<garmin_connect_devices_url>>,
                                  total_headers(client, EmptyDict), EmptyDict,
                                  EmptyDict, cookies, outcome, api)>>
            /\ cookies' = ReceiveCookies(cookies, client, outcome)
            /\ IF api.kind = "raise"
               THEN Finish(api) /\ locals' = NoLocals
               ELSE IF decoded.kind = "raise"
               THEN Finish(decoded) /\ locals' = NoLocals
               ELSE IF devices = <<>>
               THEN Finish(Return(<<>>)) /\ locals' = [NoLocals EXCEPT !.alarms = <<>>]
               ELSE /\ pc' = "alarms_loop"
                    /\ result' = NoResult
                    /\ locals' = [NoLocals EXCEPT !.devices = devices, !.alarms = <<>>]
    /\ saved' = session_data
    /\ via' = "none"
    /\ UNCHANGED <<is_cn, session_data, display_name, full_name, unit_system>>

\* one turn of the `for device in devices` loop of get_device_alarms, lines 588-591
alarms_loop ==
    /\ pc = "alarms_loop"
    /\ \E n \in 0..MaxAlarms :
        LET device == Head(locals.devices)
            k == Len(trace) + 1
        IN  \E outcome \in Outcomes({DeviceSettings(k, device.deviceId, n)},
                                    [alarms |-> <<>>], {FALSE}, DataSets) :
            LET client == modern_rest_client(is_cn)
                addurl == device_settings_url(device.deviceId)
                api == get(client, addurl, outcome)
                decoded == json(api.value)
                device_settings == decoded.value
                alarms == add_alarms(locals.alarms, device_settings)
            IN  /\ trace' = Append(trace,
                       Request("GET", client, addurl, total_headers(client, EmptyDict),
                               EmptyDict, EmptyDict, cookies, outcome, api))
                /\ cookies' = ReceiveCookies(cookies, client, outcome)
                /\ IF api.kind = "raise"
                   THEN Finish(api) /\ UNCHANGED locals
                   ELSE IF decoded.kind = "raise"
                   THEN Finish(decoded) /\ UNCHANGED locals
                   ELSE /\ locals' = [locals EXCEPT !.alarms = alarms,
                                                    !.devices = rest(locals.devices)]
                        /\ IF rest(locals.devices) = <<>>
                           THEN Finish(Return(alarms))
                           ELSE UNCHANGED <<pc, result>>
    /\ UNCHANGED <<is_cn, session_data, display_name, full_name, unit_system,
                   call, via, saved, ncalls>>

\* JSON literals, kept as their text
JsonTrue == "true"

JsonFalse == "false"

JsonNull == "null"

\* the daily summaries the server serves
SummaryJson ==
    {[privacyProtected |-> f, totalSteps |-> "1000"] : f \in {JsonTrue, JsonFalse, JsonNull}}

\* the body compositions the server serves
BodyCompositionJson == {[totalAverage |-> [weight |-> w]] : w \in {"70000", "null"}}

cdate == "2021-01-01"

\* the privacy flag never looked at
privacy_protected_ignored(response) == FALSE

\* line 408: response["privacyProtected"] is True
privacy_protected(response) == response.privacyProtected = JsonTrue

\* {**stats, **body["totalAverage"]}
stats_and_body(stats, body) == Update(stats, body.totalAverage)

\* Garmin.get_user_summary, for the facade method cname that runs it; `next`
\* is where cname goes on with the summary returned to it
user_summary(cname, next) ==
    /\ pc = "idle"
    /\ ncalls < MaxCalls
    /\ ncalls' = ncalls + 1
    /\ call' = cname
    /\ saved' = session_data
    /\ via' = "none"
    /\ \E outcome \in Outcomes(SummaryJson, EmptyDict, {FALSE}, DataSets) :
        LET client == modern_rest_client(is_cn)
            addurl == <<garmin_connect_daily_summary_url, "/", display_name>>
            params == [calendarDate |-> <<cdate>>]
            api == get(client, addurl, outcome)
            decoded == json(api.value)
            response == decoded.value
        IN  /\ trace' = <<Request("GET", client, addurl, total_headers(client, EmptyDict),
                                  params, EmptyDict, cookies, outcome, api)>>
            /\ cookies' = ReceiveCookies(cookies, client, outcome)
            /\ IF api.kind = "raise"
               THEN Finish(api) /\ locals' = NoLocals
               ELSE IF decoded.kind = "raise"
               THEN Finish(decoded) /\ locals' = NoLocals
               ELSE IF privacy_protected(response)
               THEN /\ Finish(Raise("GarminConnectAuthenticationError",
                                    <<"Authentication error">>))
                    /\ locals' = NoLocals
               ELSE IF next = "idle"
               THEN Finish(Return(response)) /\ locals' = NoLocals
               ELSE /\ pc' = next
                    /\ result' = NoResult
                    /\ locals' = [NoLocals EXCEPT !.params = response]
    /\ UNCHANGED <<is_cn, session_data, display_name, full_name, unit_system>>

\* Garmin.get_user_summary
get_user_summary == user_summary("get_user_summary", "idle")

\* Garmin.get_stats: return self.get_user_summary(cdate)
get_stats == user_summary("get_stats", "idle")

\* Garmin.get_stats_and_body, line 439: self.get_stats(cdate)
get_stats_and_body == user_summary("get_stats_and_body", "get_body_composition")

\* Garmin.get_stats_and_body, line 440: get_body_composition and the merge
get_body_composition ==
    /\ pc = "get_body_composition"
    /\ \E outcome \in Outcomes(BodyCompositionJson, EmptyDict, {FALSE}, DataSets) :
        LET client == modern_rest_client(is_cn)
            addurl == <<garmin_connect_weight_url>>
            params == [startDate |-> <<cdate>>, endDate |-> <<cdate>>]
            api == get(client, addurl, outcome)
            decoded == json(api.value)
        IN  /\ trace' = Append(trace,
                   Request("GET", client, addurl, total_headers(client, EmptyDict),
                           params, EmptyDict, cookies, outcome, api))
            /\ cookies' = ReceiveCookies(cookies, client, outcome)
            /\ IF api.kind = "raise"
               THEN Finish(api)
               ELSE IF decoded.kind = "raise"
               THEN Finish(decoded)
               ELSE Finish(Return(stats_and_body(locals.params, decoded.value)))
    /\ UNCHANGED <<is_cn, session_data, display_name, full_name, unit_system,
                   call, locals, via, saved, ncalls>>

-----------------------------------------------------------------------------
Next ==
    \/ Construct
    \/ login
    \/ login_session
    \/ authenticate
    \/ authenticate_post
    \/ authenticate_ticket
    \/ get_activities_by_date
    \/ activities_loop
    \/ get_device_alarms
    \/ alarms_loop
    \/ get_user_summary
    \/ get_stats
    \/ get_stats_and_body
    \/ get_body_composition

Spec == Init /\ [][Next]_vars

\* the login state machine alone
NextLogin ==
    \/ Construct
    \/ login
    \/ login_session
    \/ authenticate
    \/ authenticate_post
    \/ authenticate_ticket

SpecLogin == Init /\ [][NextLogin]_vars

\* the data methods alone
NextData ==
    \/ get_activities_by_date
    \/ activities_loop
    \/ get_device_alarms
    \/ alarms_loop
    \/ get_user_summary
    \/ get_stats
    \/ get_stats_and_body
    \/ get_body_composition

SpecData == Init /\ [][NextData]_vars

-----------------------------------------------------------------------------
(* Properties *)

\* the requests of the login flow, told apart as a spy on the transport would
IsResumeGet(e) ==
    e.method = "GET" /\ e.client = "sso" /\ e.url[Len(e.url)] = "login"

IsSigninGet(e) ==
    e.method = "GET" /\ e.client = "sso" /\ e.url[Len(e.url)] = "signin"

IsCredentialPost(e) ==
    e.method = "POST" /\ e.client = "sso" /\ e.url[Len(e.url)] = "signin"

IsTicketGet(e) == e.method = "GET" /\ e.client = "modern"

\* the request was answered with a response that get/post returned to its caller
Returned(e) == e.outcome.kind = "response" /\ e.api.kind = "return"

\* the answer was returned by get and carried a body for json() to decode
Decoded(e) == Returned(e) /\ e.outcome.status = 200

\* the last request of the call raised, and the call ended with that exception
EndedRaising(i) ==
    /\ i = Len(trace)
    /\ pc = "idle"
    /\ result = trace[i].api

\* login() was called with saved session state and the resume GET was answered
ResumeAnswered ==
    /\ call = "login"
    /\ saved # NoSession
    /\ Len(trace) >= 1
    /\ IsResumeGet(trace[1])
    /\ trace[1].outcome.kind = "response"

\* C1: a response with status 429 surfaces from ApiClient.get and
\* ApiClient.post as GarminConnectTooManyRequestsError, one with 401 as
\* GarminConnectAuthenticationError, one with 403 as
\* GarminConnectConnectionError whose message carries the full URL requested;
\* no such response is returned as a normal result, and the exception ends
\* the call that made the request.
C1_StatusMapping ==
    \A i \in 1..Len(trace) :
        LET e == trace[i]
        IN  (e.outcome.kind = "response" /\ e.outcome.status \in {429, 401, 403}) =>
                /\ e.api.kind = "raise"
                /\ (e.outcome.status = 429) =>
                       e.api.exc = "GarminConnectTooManyRequestsError"
                /\ (e.outcome.status = 401) =>
                       e.api.exc = "GarminConnectAuthenticationError"
                /\ (e.outcome.status = 403) =>
                       /\ e.api.exc = "GarminConnectConnectionError"
                       /\ e.api.msg = <<"Forbidden url: ">> \o e.url
                       /\ e.url[1] = "https://"
                       /\ e.url[2] \in {"sso.garmin.com/sso", "sso.garmin.cn/sso",
                                        "connect.garmin.com/modern",
                                        "connect.garmin.cn/modern"}
                /\ EndedRaising(i)

\* C1 witness: a credential POST answered 403 ended login() with the
\* connection error naming the sign-in URL
C1_Witness ==
    /\ call = "login"
    /\ Len(trace) = 2
    /\ IsCredentialPost(trace[2])
    /\ trace[2].outcome.kind = "response"
    /\ trace[2].outcome.status = 403
    /\ result = Raise("GarminConnectConnectionError",
                      <<"Forbidden url: ", "https://", "sso.garmin.com/sso", "/", "signin">>)

\* C2: every failure of ApiClient.get or ApiClient.post other than a 429, 401
\* or 403 answer, a transport exception raised before any response exists
\* included, surfaces as GarminConnectConnectionError.
C2_OtherFailuresAreConnectionErrors ==
    \A i \in 1..Len(trace) :
        LET e == trace[i]
        IN  (\/ e.outcome.kind = "error"
             \/ /\ e.outcome.kind = "response"
                /\ e.outcome.status >= 400
                /\ e.outcome.status \notin {429, 401, 403}) =>
                /\ e.api.kind = "raise"
                /\ e.api.exc = "GarminConnectConnectionError"

\* C3: when login() runs with saved session state and the resume GET is
\* answered with a failure status, login() does not raise from the resume
\* step: authenticate() is entered.
C3_ResumeFailureStatusFallsBack ==
    (ResumeAnswered /\ trace[1].outcome.status \in {401, 403, 429, 500}) =>
        /\ via = "resume_fallback"
        /\ ~(Len(trace) = 1 /\ pc = "idle" /\ result.kind = "raise")

\* C4: when the resume answer lacks VIEWER_USERPREFERENCES, or holds it and
\* lacks VIEWER_SOCIAL_PROFILE, login_session() does not raise: authenticate()
\* is entered.
C4_AbsentBlobFallsBack ==
    (/\ ResumeAnswered
     /\ trace[1].outcome.status = 200
     /\ \/ trace[1].outcome.body.prefs = NoMatch
        \/ /\ trace[1].outcome.body.prefs \notin {NoMatch, BadJson}
           /\ trace[1].outcome.body.social = NoMatch) =>
        /\ via = "resume_fallback"
        /\ ~(Len(trace) = 1 /\ pc = "idle" /\ result.kind = "raise")

\* the resume answer reports a display name other than the saved one (and its
\* other blob, when there is one, decodes)
ResumeNameMismatch ==
    /\ ResumeAnswered
    /\ trace[1].outcome.status = 200
    /\ trace[1].outcome.body.prefs \notin {NoMatch, BadJson}
    /\ trace[1].outcome.body.prefs.obj.displayName # saved.display_name
    /\ trace[1].outcome.body.social # BadJson

\* C5: when the display name the resume answer reports differs from the saved
\* one, login() falls back to full authentication: once login() has ended,
\* the sign-in GET and the credential POST were issued after the resume GET,
\* and login() did not return True from the resume path.
C5_MismatchFallsBackToCredentialPost ==
    (ResumeNameMismatch /\ pc = "idle") =>
        /\ via = "resume_fallback"
        /\ Len(trace) >= 3
        /\ IsSigninGet(trace[2])
        /\ IsCredentialPost(trace[3])

\* the resume answer is a 200 holding both blobs and the saved display name
ResumeValid ==
    /\ ResumeAnswered
    /\ trace[1].outcome.status = 200
    /\ trace[1].outcome.body.prefs \notin {NoMatch, BadJson}
    /\ trace[1].outcome.body.social \notin {NoMatch, BadJson}
    /\ trace[1].outcome.body.prefs.obj.displayName = saved.display_name

\* C6: when the resume GET is answered 200 with both blobs and the saved
\* display name, login() returns True having issued the resume GET and
\* nothing else (no credential POST), and session_data is what it was.
C6_ValidResumeReturnsTrue ==
    ResumeValid =>
        /\ pc = "idle"
        /\ result = Return(TRUE)
        /\ Len(trace) = 1
        /\ \A i \in 1..Len(trace) : ~IsCredentialPost(trace[i])
        /\ via = "none"
        /\ session_data = saved
        /\ display_name = saved.display_name

\* C6 witness: the session saved by a successful authenticate() was handed to
\* a new client, whose login() resumed it
C6_Witness ==
    /\ ResumeValid
    /\ result = Return(TRUE)
    /\ ncalls = 2
    /\ "SESSIONID" \in DOMAIN saved.session_cookies
    /\ saved.session_cookies["SESSIONID"] = "new"
    /\ cookies[<<"", "SESSIONID">>] = "new"

\* a hard failure of full authentication: the sign-in page without a _csrf
\* field, the POST answer without a ticket, the ticket-exchange answer with a
\* blob missing or undecodable
HardFailure ==
    /\ call = "login"
    /\ pc = "idle"
    /\ Len(trace) >= 1
    /\ LET e == trace[Len(trace)]
       IN  /\ Returned(e)
           /\ \/ IsSigninGet(e) /\ e.outcome.body.csrf = None
              \/ IsCredentialPost(e) /\ e.outcome.body.ticket = None
              \/ /\ IsTicketGet(e)
                 /\ \/ e.outcome.body.prefs \in {NoMatch, BadJson}
                    \/ e.outcome.body.social \in {NoMatch, BadJson}

\* C7: every hard failure of full authentication ends login() with
\* GarminConnectAuthenticationError raised to the caller, never with a normal
\* return value.
C7_HardFailureRaisesAuthenticationError ==
    HardFailure =>
        /\ result.kind = "raise"
        /\ result.exc = "GarminConnectAuthenticationError"

\* C8: a sign-in page without a _csrf field is the last request of its
\* login() call (no credential POST, no ticket-exchange GET follows); a POST
\* answer without a ticket is the last request of its call (no
\* ticket-exchange GET follows).
C8_NoRequestAfterMissingToken ==
    \A i \in 1..Len(trace) :
        LET e == trace[i]
        IN  /\ (IsSigninGet(e) /\ Returned(e) /\ e.outcome.body.csrf = None) =>
                /\ i = Len(trace)
                /\ pc = "idle"
                /\ \A j \in 1..Len(trace) :
                       ~IsCredentialPost(trace[j]) /\ ~IsTicketGet(trace[j])
            /\ (IsCredentialPost(e) /\ Returned(e) /\ e.outcome.body.ticket = None) =>
                /\ i = Len(trace)
                /\ pc = "idle"
                /\ \A j \in 1..Len(trace) : ~IsTicketGet(trace[j])

\* C8 witness: after a failed resume, the sign-in page came without a _csrf
\* field and login() ended there
C8_Witness ==
    /\ call = "login"
    /\ pc = "idle"
    /\ via = "resume_fallback"
    /\ Len(trace) = 2
    /\ IsSigninGet(trace[2])
    /\ Returned(trace[2])
    /\ trace[2].outcome.status = 200
    /\ trace[2].outcome.body.csrf = None
    /\ result = Return(FALSE)

\* the bodies of the first n requests of the call, concatenated in request order
RECURSIVE PagesReceived(_)
PagesReceived(n) ==
    IF n = 0 THEN <<>> ELSE PagesReceived(n - 1) \o trace[n].outcome.body

\* the decimal text of the offsets 0, 20, 40, 60
FirstOffsets == <<<<"0">>, <<"2", "0">>, <<"4", "0">>, <<"6", "0">>>>

\* the server served three pages of 20 activities and then an empty page
ThreeFullPages ==
    /\ call = "get_activities_by_date"
    /\ Len(trace) = 4
    /\ \A i \in 1..4 : Decoded(trace[i])
    /\ \A i \in 1..3 : Len(trace[i].outcome.body) = 20
    /\ trace[4].outcome.body = <<>>

\* C9: get_activities_by_date asks for limit 20 at the offsets 0, 20, 40, ...
\* in this order, one step of 20 after every non-empty page whatever its
\* length; it goes on exactly while pages come non-empty, and returns only
\* after an empty page, with the concatenation of the pages before it, in
\* request order and page order.  Three pages of 20 and an empty one give 60
\* activities from 4 requests at the offsets 0, 20, 40, 60.
C9_Pagination ==
    (call = "get_activities_by_date") =>
        /\ \A i \in 1..Len(trace) :
               /\ trace[i].method = "GET"
               /\ trace[i].params.limit = <<"2", "0">>
               /\ trace[i].params.start = str(20 * (i - 1))
               /\ (i <= 4) => trace[i].params.start = FirstOffsets[i]
               /\ (i < Len(trace)) => Decoded(trace[i]) /\ trace[i].outcome.body # <<>>
        /\ (pc = "activities_loop") =>
               /\ locals.activities = PagesReceived(Len(trace))
               /\ locals.start = 20 * Len(trace)
               /\ (Len(trace) >= 1) => trace[Len(trace)].outcome.body # <<>>
        /\ (pc = "idle" /\ result.kind = "return") =>
               /\ Decoded(trace[Len(trace)])
               /\ trace[Len(trace)].outcome.body = <<>>
               /\ result.value = PagesReceived(Len(trace) - 1)
        /\ (ThreeFullPages /\ pc = "idle") =>
               /\ result.kind = "return"
               /\ Len(result.value) = 60
               /\ \A j \in 1..60 :
                      result.value[j] =
                          trace[((j - 1) \div 20) + 1].outcome.body[((j - 1) % 20) + 1]

\* C9 witness: three pages of 20, an empty page, and the 60 activities returned
C9_Witness ==
    /\ ThreeFullPages
    /\ pc = "idle"
    /\ result.kind = "return"
    /\ Len(result.value) = 60
    /\ trace[4].params.start = <<"6", "0">>

\* the alarms of the settings answers 2..n of the call, concatenated in order
RECURSIVE AlarmsReceived(_)
AlarmsReceived(n) ==
    IF n <= 1 THEN <<>> ELSE AlarmsReceived(n - 1) \o trace[n].outcome.body.alarms

\* the device list was returned to get_device_alarms
DevicesListed ==
    /\ call = "get_device_alarms"
    /\ Len(trace) >= 1
    /\ Decoded(trace[1])

\* C10: get_device_alarms fetches the device list once, then the settings of
\* each device, one request per device in device-list order, and returns the
\* concatenation of the devices' alarm lists in that order; an empty device
\* list gives an empty result and no settings request.  Two devices with 1 and
\* 2 alarms give 3 alarms, the first device's first.
C10_DeviceAlarms ==
    (call = "get_device_alarms") =>
        /\ trace[1].url[Len(trace[1].url)] = garmin_connect_devices_url
        /\ \A i \in 2..Len(trace) :
               /\ Decoded(trace[1])
               /\ i - 1 <= Len(trace[1].outcome.body)
               /\ trace[i].url[Len(trace[i].url)] = trace[1].outcome.body[i - 1].deviceId
               /\ trace[i].url[Len(trace[i].url) - 1] = "/device-info/settings/"
               /\ (i < Len(trace)) => Decoded(trace[i])
        /\ (pc = "idle" /\ result.kind = "return") =>
               /\ Decoded(trace[1])
               /\ Len(trace) = 1 + Len(trace[1].outcome.body)
               /\ result.value = AlarmsReceived(Len(trace))
        /\ (DevicesListed /\ trace[1].outcome.body = <<>>) =>
               /\ pc = "idle"
               /\ Len(trace) = 1
               /\ result = Return(<<>>)
        /\ (/\ DevicesListed
            /\ pc = "idle"
            /\ result.kind = "return"
            /\ Len(trace) = 3
            /\ Len(trace[2].outcome.body.alarms) = 1
            /\ Len(trace[3].outcome.body.alarms) = 2) =>
               /\ Len(result.value) = 3
               /\ result.value[1] = trace[2].outcome.body.alarms[1]
               /\ result.value[2] = trace[3].outcome.body.alarms[1]
               /\ result.value[3] = trace[3].outcome.body.alarms[2]

\* C10 witness: two devices, d2 then d1, with 1 and 2 alarms; 3 alarms returned,
\* that of d2 first
C10_Witness ==
    /\ DevicesListed
    /\ pc = "idle"
    /\ result.kind = "return"
    /\ trace[1].outcome.body = <<[deviceId |-> "d2"], [deviceId |-> "d1"]>>
    /\ Len(trace) = 3
    /\ Len(trace[2].outcome.body.alarms) = 1
    /\ Len(trace[3].outcome.body.alarms) = 2
    /\ Len(result.value) = 3
    /\ result.value[1].alarmId[2] = "d2"

\* login() ran full authentication (directly or after a failed resume) and
\* returned True
AuthenticateSucceeded ==
    /\ call = "login"
    /\ pc = "idle"
    /\ via \in {"direct", "resume_fallback"}
    /\ result = Return(TRUE)

\* the name -> value pairs of a jar, as a set
JarPairs(jar) == {<<k[2], jar[k]>> : k \in DOMAIN jar}

DictPairs(d) == {<<n, d[n]>> : n \in DOMAIN d}

SummaryFetched ==
    /\ call \in {"get_user_summary", "get_stats", "get_stats_and_body"}
    /\ Len(trace) >= 1
    /\ Decoded(trace[1])

\* C12: get_user_summary, get_stats and get_stats_and_body never return a
\* summary whose privacyProtected flag is true: such an answer ends the call
\* with GarminConnectAuthenticationError (before get_stats_and_body asks for
\* the body composition); a summary whose flag is not true is returned
\* unchanged by get_user_summary and get_stats, and with all its fields, next
\* to those of totalAverage, by get_stats_and_body.
C12_PrivacyProtectedRaises ==
    SummaryFetched =>
        LET summary == trace[1].outcome.body
        IN  /\ (summary.privacyProtected = "true") =>
                /\ pc = "idle"
                /\ Len(trace) = 1
                /\ result.kind = "raise"
                /\ result.exc = "GarminConnectAuthenticationError"
            /\ (summary.privacyProtected # "true"
                    /\ call \in {"get_user_summary", "get_stats"}) =>
                /\ pc = "idle"
                /\ result = Return(summary)
            /\ (summary.privacyProtected # "true" /\ call = "get_stats_and_body") =>
                /\ ~(pc = "idle" /\ Len(trace) = 1)
                /\ (pc = "idle" /\ result.kind = "return") =>
                       /\ Len(trace) = 2
                       /\ Decoded(trace[2])
                       /\ \A f \in DOMAIN summary : result.value[f] = summary[f]
                       /\ result.value.weight = trace[2].outcome.body.totalAverage.weight
            /\ (pc = "idle" /\ result.kind = "return") =>
                   result.value.privacyProtected # "true"

\* C12 witness: get_stats_and_body got a privacy-protected summary and raised
C12_Witness ==
    /\ SummaryFetched
    /\ call = "get_stats_and_body"
    /\ trace[1].outcome.body.privacyProtected = "true"
    /\ pc = "idle"
    /\ result.kind = "raise"
    /\ result.exc = "GarminConnectAuthenticationError"

\* the cookies of a jar that came from saved session state: set_cookies
\* injects them without a domain
Injected(jar) == {k \in DOMAIN jar : k[1] = ""}

\* C13: every run of full authentication, entered directly or as the fallback
\* of a failed resume, sends its sign-in GET with an empty cookie jar, and
\* none of its requests carries a cookie that the resume step injected from
\* saved session state (the resume GET itself carries them all).
C13_AuthenticateStartsWithEmptyJar ==
    (call = "login") =>
        \A i \in 1..Len(trace) :
            /\ IsSigninGet(trace[i]) =>
                   /\ DOMAIN trace[i].jar = {}
                   /\ i = IF via = "resume_fallback" THEN 2 ELSE 1
            /\ (IsSigninGet(trace[i]) \/ IsCredentialPost(trace[i]) \/ IsTicketGet(trace[i])) =>
                   /\ Injected(trace[i].jar) = {}
                   /\ \A k \in DOMAIN trace[i].jar : trace[i].jar[k] # "old"
            /\ (IsResumeGet(trace[i]) /\ saved # NoSession) =>
                   \A n \in (DOMAIN saved.session_cookies) \cup (DOMAIN saved.login_cookies) :
                       <<"", n>> \in DOMAIN trace[i].jar

\* C13 witness: the resume GET went out with the saved cookies and set one
\* more, the session counted as expired, and the sign-in GET of the fallback
\* went out with an empty jar
C13_Witness ==
    /\ call = "login"
    /\ via = "resume_fallback"
    /\ Len(trace) >= 2
    /\ trace[1].jar[<<"", "SESSIONID">>] = "old"
    /\ trace[1].outcome.set_cookie
    /\ IsSigninGet(trace[2])
    /\ DOMAIN trace[2].jar = {}

\* C14: a successful full authentication issues exactly three requests, in
\* this order: the sign-in GET on the SSO host, the credential POST to the
\* same path, the ticket-exchange GET on the root of the application host
\* (after the one resume GET when it is a fallback).  The POST carries the
\* credentials with the CSRF token of the GET's answer, a Referer equal to the
\* URL of that answer, and the parameter bag of the GET; the last GET carries
\* as its only parameter the ticket of the POST's answer.
C14_ThreeRequestsInOrder ==
    AuthenticateSucceeded =>
        LET n == Len(trace)
            signin == trace[n - 2]
            credentials == trace[n - 1]
            exchange == trace[n]
        IN  /\ n = IF via = "resume_fallback" THEN 4 ELSE 3
            /\ (via = "resume_fallback") => IsResumeGet(trace[1])
            /\ IsSigninGet(signin)
            /\ signin.url[2] \in {"sso.garmin.com/sso", "sso.garmin.cn/sso"}
            /\ IsCredentialPost(credentials)
            /\ credentials.url = signin.url
            /\ IsTicketGet(exchange)
            /\ exchange.url \in {<<"https://", "connect.garmin.com/modern", "/", "">>,
                                 <<"https://", "connect.garmin.cn/modern", "/", "">>}
            /\ signin.outcome.body.csrf # None
            /\ credentials.data =
                   [username |-> "user@example.com", password |-> "secret",
                    embed |-> "false", _csrf |-> signin.outcome.body.csrf]
            /\ credentials.headers.Referer =
                   IF signin.outcome.redirected
                   THEN signin.url \o <<"#redirected">>
                   ELSE signin.url
            /\ credentials.params = signin.params
            /\ credentials.outcome.body.ticket # None
            /\ exchange.params = [ticket |-> credentials.outcome.body.ticket]

\* C14 witness: a successful authentication whose sign-in GET was redirected
C14_Witness ==
    /\ AuthenticateSucceeded
    /\ via = "direct"
    /\ Len(trace) = 3
    /\ trace[1].outcome.redirected
    /\ trace[2].headers.Referer =
           <<"https://", "sso.garmin.com/sso", "/", "signin", "#redirected">>
    /\ trace[3].params = [ticket |-> "ST-1"]

\* the place of a request in the login flow
Rank(e) ==
    IF IsResumeGet(e) THEN 1
    ELSE IF IsSigninGet(e) THEN 2
    ELSE IF IsCredentialPost(e) THEN 3
    ELSE 4

\* the requests a login() call can still make from where it stands
StepsLeft ==
    IF pc = "login_session" THEN 4
    ELSE IF pc = "authenticate" THEN 3
    ELSE IF pc = "authenticate_post" THEN 2
    ELSE IF pc = "authenticate_ticket" THEN 1
    ELSE 0

\* what C15 says of every state of a login() call
C15_AtMostFourRequests ==
    (call = "login") =>
        /\ Len(trace) <= 4
        /\ Len(trace) + StepsLeft <= 4
        /\ \A i \in 1..Len(trace) :
               /\ (i < Len(trace)) => Rank(trace[i]) < Rank(trace[i + 1])
               /\ IsResumeGet(trace[i]) => (i = 1 /\ saved # NoSession)
               /\ (trace[i].api.kind = "raise") => EndedRaising(i)
        /\ (pc = "login_session") => (trace = <<>> /\ via = "none")
        /\ (via = "resume_fallback") =>
               /\ Len(trace) >= 1
               /\ IsResumeGet(trace[1])
               /\ trace[1].api.kind = "return"

\* what C15 says of every step of a running login() call: it issues one
\* request, and the call either ends or moves on to a later request
C15_EveryStepAdvances ==
    (call = "login" /\ pc # "idle") =>
        /\ Len(trace') = Len(trace) + 1
        /\ StepsLeft' < StepsLeft
        /\ call' = "login"

\* C15: login() ends after at most four requests and retries nothing: at most
\* one resume GET, then at most one sign-in GET, one credential POST and one
\* ticket-exchange GET, in this order; the fallback from resume to full
\* authentication happens at most once and full authentication never goes
\* back to the resume; a request that raises ends the call at once.  Every
\* step of a running call issues one request and leaves fewer to make.
C15_LoginTerminatesWithoutRetry ==
    /\ []C15_AtMostFourRequests
    /\ [][C15_EveryStepAdvances]_vars

\* C15 witness: a login() call that made all four requests
C15_Witness ==
    /\ call = "login"
    /\ pc = "idle"
    /\ Len(trace) = 4
    /\ IsResumeGet(trace[1])
    /\ IsSigninGet(trace[2])
    /\ IsCredentialPost(trace[3])
    /\ IsTicketGet(trace[4])

\* login() has ended without returning True, after a resume whose display
\* name mismatched and a fallback that failed at the CSRF or the ticket step
MismatchThenTokenMissing ==
    /\ ResumeNameMismatch
    /\ trace[1].outcome.body.social # NoMatch
    /\ pc = "idle"
    /\ result # Return(TRUE)
    /\ Len(trace) \in {2, 3}
    /\ LET e == trace[Len(trace)]
       IN  /\ Returned(e)
           /\ \/ IsSigninGet(e) /\ e.outcome.body.csrf = None
              \/ IsCredentialPost(e) /\ e.outcome.body.ticket = None

\* C16: whenever login() returns True, by the resume or by full
\* authentication, session_data is not None and the client's display_name is
\* session_data["display_name"]; and when login() does not return True after
\* a resume whose display name mismatched, the fallback having failed at the
\* CSRF or the ticket step, session_data is still the record the client was
\* constructed with while display_name is the mismatching name the server
\* returned.
C16_DisplayNameAndSessionData ==
    /\ (call = "login" /\ pc = "idle" /\ result = Return(TRUE)) =>
           /\ session_data # NoSession
           /\ display_name = session_data.display_name
    /\ MismatchThenTokenMissing =>
           /\ via = "resume_fallback"
           /\ result = Return(FALSE)
           /\ session_data = saved
           /\ display_name = trace[1].outcome.body.prefs.obj.displayName
           /\ display_name # session_data.display_name

\* C16 witness: the saved session is alice's, the resume answer names bob, the
\* sign-in page of the fallback is served and the POST answer has no ticket
C16_Witness ==
    /\ MismatchThenTokenMissing
    /\ Len(trace) = 3
    /\ saved.display_name = "alice"
    /\ session_data.display_name = "alice"
    /\ display_name = "bob"

\* C16, first half, seen: login() returned True from the fallback after a
\* mismatching resume, and session_data now carries the new name
C16_FallbackRenamed ==
    /\ AuthenticateSucceeded
    /\ via = "resume_fallback"
    /\ ResumeNameMismatch
    /\ session_data.display_name # saved.display_name
====
